---- MODULE Spec2Model ----
(***************************************************************************)
(* WhatsApp CRM: message ingestion, de-duplication and lead upsert.       *)
(*                                                                         *)
(* Server side: server/index.cjs (processMessage, the dedup cache, the    *)
(* REST endpoints) on top of the relational store server/database.js.     *)
(* Dashboard side: src/services/CrmService.ts (socket handlers).          *)
(*                                                                         *)
(* Text values (phones, bodies, names) are sequences of one-character     *)
(* strings; SQL NULL / JS undefined is the one-element sequence NULL.     *)
(* Message ids are one-element sequences holding the id token.            *)
(***************************************************************************)
EXTENDS Integers, Sequences, FiniteSets, Bags, TLC

\* ------------------------------------------------------------------------
\* Bounds of the model
\* ------------------------------------------------------------------------
\* accepted processMessage runs in one behaviour
MaxTasks == 2
\* REST requests (POST / PUT / DELETE) in one behaviour
MaxApi == 2
\* clock ticks in one behaviour of SpecClock
MaxTicks == 3
\* milliseconds per clock tick
TickMs == 20000
\* dashboards connected in SpecDash
NumDashboards == 2
\* lead_updated emissions after which dashboards send no further request
MaxEmits == 3
\* accepted processMessage runs in one behaviour of SpecStore
MaxStoreTasks == 1

\* GET /chats/recent requests served
MaxChatReqs == 2

\* sets of socket handlers one socket can carry
MaxListeners == 2

\* entries of a dashboard's list while the user still adds leads by hand
MaxList == 2

\* ------------------------------------------------------------------------
\* Program constants
\* ------------------------------------------------------------------------
PROCESSED_MESSAGES_TTL == 30000
CLEANUP_INTERVAL == 60000
MinRawNumberLen == 5
MinPhoneDigits == 8
MaxPhoneDigits == 15
\* largest value a DECIMAL(10, 2) column holds, in whole units
MaxDecimal == 99999999
\* stands for every request id that is not the text of a UUID
MalformedId == 0

\* setTimeout(() => reject(new Error('Timeout getting chats')), 10000)
CHATS_TIMEOUT == 10000

\* ------------------------------------------------------------------------
\* Text helpers
\* ------------------------------------------------------------------------
NULL == <<"NULL">>

Digits == {"0", "1", "2", "3", "4", "5", "6", "7", "8", "9"}

\* JS truthiness of a string-or-undefined value
Falsy(x) == x = NULL \/ x = <<>>

\* JS `x || null`
OrNull(x) == IF Falsy(x) THEN NULL ELSE x

\* JS `a || b`
Or(a, b) == IF Falsy(a) THEN b ELSE a

\* SQL COALESCE(a, b)
Coalesce(a, b) == IF a = NULL THEN b ELSE a

IsDigit(c) == c \in Digits

\* phone.replace(/\D/g, '')
StripNonDigits(s) == SelectSeq(s, IsDigit)

RECURSIVE IndexOf(_, _, _)
\* first position >= i of character c in s, 0 when absent
IndexOf(s, c, i) ==
    IF i > Len(s) THEN 0
    ELSE IF s[i] = c THEN i
    ELSE IndexOf(s, c, i + 1)

\* s.split('@')[0]
SplitAtFirst(s) ==
    LET k == IndexOf(s, "@", 1)
    IN IF k = 0 THEN s ELSE SubSeq(s, 1, k - 1)

\* body.trim() === ''
TrimIsEmpty(s) == \A i \in 1..Len(s) : s[i] = " "

\* ------------------------------------------------------------------------
\* Relational store: validation helpers (server/database.js)
\* ------------------------------------------------------------------------
ValidStatuses == {"new", "potential", "won", "lost", "contacted"}

SourceCheck == {"whatsapp", "manual"}

\* validatePhone: [ok, cleaned]
validatePhone(phone) ==
    IF Falsy(phone) THEN [ok |-> FALSE, cleaned |-> <<>>]
    ELSE LET cleaned == StripNonDigits(phone)
         IN IF Len(cleaned) < MinPhoneDigits \/ Len(cleaned) > MaxPhoneDigits
            THEN [ok |-> FALSE, cleaned |-> cleaned]
            ELSE [ok |-> TRUE, cleaned |-> cleaned]

\* validateStatus: TRUE when the status is accepted
validateStatus(status) == status \in ValidStatuses

RECURSIVE LeadingDigits(_)
\* how many characters of s, from its start, are digits
LeadingDigits(s) ==
    IF s = <<>> \/ ~IsDigit(s[1]) THEN 0 ELSE 1 + LeadingDigits(Tail(s))

DigitVal(c) == CHOOSE n \in 0..9 : ToString(n) = c

RECURSIVE DigitsVal(_)
\* the number a sequence of digits writes
DigitsVal(s) ==
    IF s = <<>> THEN 0
    ELSE 10 * DigitsVal(SubSeq(s, 1, Len(s) - 1)) + DigitVal(s[Len(s)])

\* A request value is [kind |-> "none"] (undefined or null),
\* [kind |-> "nan"] (a JSON value parseFloat has no number for: true, {}),
\* [kind |-> "num", v |-> n] (a JSON number) or
\* [kind |-> "str", v |-> text] (a JSON string).
\* parseFloat(value): [nan, v]; of a string it reads the longest numeric
\* prefix (an optional sign, then digits) and ignores what follows.
parseFloat(value) ==
    IF value.kind = "num" THEN [nan |-> FALSE, v |-> value.v]
    ELSE IF value.kind = "str"
    THEN LET neg == value.v # <<>> /\ value.v[1] = "-"
             rest == IF neg THEN Tail(value.v) ELSE value.v
             k == LeadingDigits(rest)
             n == DigitsVal(SubSeq(rest, 1, k))
         IN IF k = 0 THEN [nan |-> TRUE, v |-> 0]
            ELSE [nan |-> FALSE, v |-> IF neg THEN 0 - n ELSE n]
    ELSE [nan |-> TRUE, v |-> 0]

\* validateValue: [ok, value]
validateValue(value) ==
    IF value.kind = "none" \/ (value.kind = "str" /\ value.v = <<>>)
    THEN [ok |-> TRUE, value |-> 0]
    ELSE LET numValue == parseFloat(value)
         IN IF numValue.nan \/ numValue.v < 0
            THEN [ok |-> FALSE, value |-> 0]
            ELSE [ok |-> TRUE, value |-> numValue.v]

\* ------------------------------------------------------------------------
\* Relational store: the leads table and its operations
\* (server/database.js).  A store call yields
\*   [ok |-> FALSE, ...] when the call throws (validation error or a
\*                       constraint violation, transaction rolled back),
\*   [ok |-> TRUE, leads |-> table after the call, rows |-> result.rows].
\* ------------------------------------------------------------------------
\* UNIQUE (whatsapp_id): no row other than `self` holds a non-null wid
WhatsAppIdFree(ls, wid, selfId) ==
    wid = NULL \/ ~ \E l \in ls : l.id # selfId /\ l.whatsapp_id = wid

\* Wrong ON CONFLICT handling: the insert ignores an existing phone row.
createLeadNoConflict(ls, data, t, newId) ==
    LET vp == validatePhone(data.phone)
        st == IF data.status = "" THEN "new" ELSE data.status
        vv == validateValue(data.value)
        src == IF data.source = "" THEN "whatsapp" ELSE data.source
        inserted == [id |-> newId, phone |-> vp.cleaned,
                     name |-> OrNull(data.name),
                     last_message |-> OrNull(data.last_message),
                     source_message |-> OrNull(data.source_message),
                     source_contact_name |-> OrNull(data.source_contact_name),
                     whatsapp_id |-> OrNull(data.whatsapp_id),
                     status |-> st, source |-> src, value |-> vv.value,
                     product_name |-> OrNull(data.product_name),
                     created_at |-> t, updated_at |-> t]
    IN IF ~vp.ok \/ ~validateStatus(st) \/ ~vv.ok \/ src \notin SourceCheck
       THEN [ok |-> FALSE, leads |-> ls, rows |-> {}]
       ELSE [ok |-> TRUE, leads |-> ls \cup {inserted}, rows |-> {inserted}]

\* Wrong DO UPDATE SET list: the upsert also stamps created_at anew.
createLeadRestamps(ls, data, t, newId) ==
    LET r == createLeadNoConflict(ls \ {l \in ls : l.phone = validatePhone(data.phone).cleaned},
                                  data, t, newId)
        old == {l \in ls : l.phone = validatePhone(data.phone).cleaned}
    IN IF ~r.ok \/ old = {} THEN r
       ELSE LET o == CHOOSE l \in old : TRUE
                row == CHOOSE l \in r.rows : TRUE
                upd == [row EXCEPT !.id = o.id, !.status = o.status,
                                   !.source = o.source]
            IN [ok |-> TRUE, leads |-> (ls \ old) \cup {upd}, rows |-> {upd}]

\* createLead: INSERT ... ON CONFLICT (phone) DO UPDATE ... RETURNING *
createLead(ls, data, t, newId) ==
    LET vp == validatePhone(data.phone)
        st == IF data.status = "" THEN "new" ELSE data.status
        vv == validateValue(data.value)
        src == IF data.source = "" THEN "whatsapp" ELSE data.source
        excluded == [id |-> newId, phone |-> vp.cleaned,
                     name |-> OrNull(data.name),
                     last_message |-> OrNull(data.last_message),
                     source_message |-> OrNull(data.source_message),
                     source_contact_name |-> OrNull(data.source_contact_name),
                     whatsapp_id |-> OrNull(data.whatsapp_id),
                     status |-> st, source |-> src, value |-> vv.value,
                     product_name |-> OrNull(data.product_name),
                     created_at |-> t, updated_at |-> t]
        conflict == {l \in ls : l.phone = vp.cleaned}
    IN IF ~vp.ok \/ ~validateStatus(st) \/ ~vv.ok
       THEN [ok |-> FALSE, leads |-> ls, rows |-> {}]
       ELSE IF src \notin SourceCheck \/ vv.value > MaxDecimal
       THEN [ok |-> FALSE, leads |-> ls, rows |-> {}]
       ELSE IF conflict = {}
       THEN IF WhatsAppIdFree(ls, excluded.whatsapp_id, newId)
            THEN [ok |-> TRUE, leads |-> ls \cup {excluded}, rows |-> {excluded}]
            ELSE [ok |-> FALSE, leads |-> ls, rows |-> {}]
       ELSE LET old == CHOOSE l \in conflict : TRUE
                upd == [old EXCEPT
                          !.name = Coalesce(excluded.name, old.name),
                          !.last_message = Coalesce(excluded.last_message, old.last_message),
                          !.source_message = Coalesce(excluded.source_message, old.source_message),
                          !.source_contact_name =
                              Coalesce(excluded.source_contact_name, old.source_contact_name),
                          !.whatsapp_id = Coalesce(excluded.whatsapp_id, old.whatsapp_id),
                          !.value = excluded.value,
                          !.product_name = Coalesce(excluded.product_name, old.product_name),
                          !.updated_at = t]
            IN IF WhatsAppIdFree(ls, upd.whatsapp_id, old.id)
               THEN [ok |-> TRUE, leads |-> (ls \ {old}) \cup {upd}, rows |-> {upd}]
               ELSE [ok |-> FALSE, leads |-> ls, rows |-> {}]

\* findLeadByPhone: SELECT * FROM leads WHERE phone = $1
findLeadByPhone(ls, phone) ==
    LET vp == validatePhone(phone)
    IN IF ~vp.ok THEN [ok |-> FALSE, leads |-> ls, rows |-> {}]
       ELSE [ok |-> TRUE, leads |-> ls, rows |-> {l \in ls : l.phone = vp.cleaned}]

\* findLeadByWhatsAppId: SELECT * FROM leads WHERE whatsapp_id = $1
findLeadByWhatsAppId(ls, whatsappId) ==
    IF Falsy(whatsappId) THEN [ok |-> TRUE, leads |-> ls, rows |-> {}]
    ELSE [ok |-> TRUE, leads |-> ls, rows |-> {l \in ls : l.whatsapp_id = whatsappId}]

\* updateLeadMessage with the rows of the phone rewritten as upd[l] says
UpdateWhere(ls, phone, upd) ==
    LET vp == validatePhone(phone)
        hit == {l \in ls : l.phone = vp.cleaned}
        new == {upd[l] : l \in hit}
    IN IF ~vp.ok THEN [ok |-> FALSE, leads |-> ls, rows |-> {}]
       ELSE IF \E l \in hit : ~WhatsAppIdFree(ls, upd[l].whatsapp_id, l.id)
       THEN [ok |-> FALSE, leads |-> ls, rows |-> {}]
       ELSE [ok |-> TRUE, leads |-> (ls \ hit) \cup new, rows |-> new]

SetMessage(l, message, whatsappId, name, t) ==
    [l EXCEPT !.last_message = OrNull(message),
              !.whatsapp_id = Coalesce(OrNull(whatsappId), l.whatsapp_id),
              !.name = Coalesce(OrNull(name), l.name),
              !.updated_at = t]

\* Wrong SET list: the update also puts the lead back to 'new'.
updateLeadMessageResetsStatus(ls, phone, message, whatsappId, name, t) ==
    UpdateWhere(ls, phone,
        [l \in ls |-> [SetMessage(l, message, whatsappId, name, t)
                          EXCEPT !.status = "new"]])

\* Wrong merge: the message is appended to the stored one.
updateLeadMessageAppends(ls, phone, message, whatsappId, name, t) ==
    UpdateWhere(ls, phone,
        [l \in ls |-> [SetMessage(l, message, whatsappId, name, t) EXCEPT
                          !.last_message =
                              IF l.last_message = NULL THEN OrNull(message)
                              ELSE l.last_message \o message]])

\* Wrong COALESCE order: a stored WhatsApp id wins over the event's.
updateLeadMessageKeepsId(ls, phone, message, whatsappId, name, t) ==
    UpdateWhere(ls, phone,
        [l \in ls |-> [SetMessage(l, message, whatsappId, name, t) EXCEPT
                          !.whatsapp_id =
                              Coalesce(l.whatsapp_id, OrNull(whatsappId))]])

\* updateLeadMessage: UPDATE leads SET last_message, whatsapp_id, name,
\* updated_at WHERE phone = $4 RETURNING *
updateLeadMessage(ls, phone, message, whatsappId, name, t) ==
    UpdateWhere(ls, phone,
        [l \in ls |-> SetMessage(l, message, whatsappId, name, t)])

\* the id column is of type UUID: a query comparing it with a parameter
\* that is not the text of a UUID fails (invalid input syntax)
IsUuid(id) == id # MalformedId

\* updateLeadStatus: UPDATE leads SET status, updated_at WHERE id = $2
updateLeadStatus(ls, id, status, t) ==
    LET hit == {l \in ls : l.id = id}
        new == {[l EXCEPT !.status = status, !.updated_at = t] : l \in hit}
    IN IF ~validateStatus(status) \/ ~IsUuid(id)
       THEN [ok |-> FALSE, leads |-> ls, rows |-> {}]
       ELSE [ok |-> TRUE, leads |-> (ls \ hit) \cup new, rows |-> new]

\* updateLeadValue: UPDATE leads SET value, updated_at WHERE id = $2
updateLeadValue(ls, id, value, t) ==
    LET vv == validateValue(value)
        hit == {l \in ls : l.id = id}
        new == {[l EXCEPT !.value = vv.value, !.updated_at = t] : l \in hit}
    IN IF ~vv.ok \/ ~IsUuid(id) \/ vv.value > MaxDecimal
       THEN [ok |-> FALSE, leads |-> ls, rows |-> {}]
       ELSE [ok |-> TRUE, leads |-> (ls \ hit) \cup new, rows |-> new]

\* deleteLead: DELETE FROM leads WHERE id = $1 RETURNING *
deleteLead(ls, id) ==
    LET hit == {l \in ls : l.id = id}
    IN IF ~IsUuid(id) THEN [ok |-> FALSE, leads |-> ls, rows |-> {}]
       ELSE [ok |-> TRUE, leads |-> ls \ hit, rows |-> hit]

\* ------------------------------------------------------------------------
\* Relational store: getLeads (server/database.js)
\* ------------------------------------------------------------------------
UpperCase == <<"A", "B", "L", "O", "U", "W">>
LowerCase == <<"a", "b", "l", "o", "u", "w">>

\* case folding of ILIKE
Lower(c) ==
    IF \E i \in DOMAIN UpperCase : UpperCase[i] = c
    THEN LowerCase[CHOOSE i \in DOMAIN UpperCase : UpperCase[i] = c]
    ELSE c

\* column ILIKE '%' || term || '%' (term without wildcards); NULL ILIKE ...
\* is not true
ILike(text, term) ==
    /\ text # NULL
    /\ \E i \in 1..(Len(text) - Len(term) + 1) :
          \A j \in 1..Len(term) : Lower(text[i + j - 1]) = Lower(term[j])

\* a filter of getLeads is absent (JS falsy) when it is "" (status), 0
\* (startDate, endDate, limit, offset) or NULL (search)
NoFilters ==
    [status |-> "", startDate |-> 0, endDate |-> 0, search |-> NULL,
     limit |-> 0, offset |-> 0]

\* one more `AND <col> ... $paramCount` with its value pushed
AddCondition(q, supplied, col, value) ==
    IF supplied
    THEN [q EXCEPT !.conds = Append(@, [col |-> col, p |-> q.paramCount]),
                   !.values = Append(@, value),
                   !.paramCount = @ + 1]
    ELSE q

\* the query text and the values array getLeads builds: the WHERE
\* conditions and LIMIT / OFFSET with the number of their placeholder (0:
\* clause absent), and the values in the order they were pushed
BuildQuery(filters) ==
    LET q0 == [conds |-> << >>, values |-> << >>, paramCount |-> 1,
               limit |-> 0, offset |-> 0]
        q1 == AddCondition(q0, filters.status # "", "status", filters.status)
        q2 == AddCondition(q1, filters.startDate # 0, "startDate", filters.startDate)
        q3 == AddCondition(q2, filters.endDate # 0, "endDate", filters.endDate)
        q4 == AddCondition(q3, filters.search # NULL, "search", filters.search)
        q5 == IF filters.limit # 0
              THEN [q4 EXCEPT !.limit = q4.paramCount,
                              !.values = Append(@, filters.limit)]
              ELSE q4
    IN IF filters.offset # 0
       THEN [q5 EXCEPT !.paramCount = @ + 1,
                       !.offset = q5.paramCount + 1,
                       !.values = Append(@, filters.offset)]
       ELSE q5

\* the placeholders a query text refers to
Placeholders(q) ==
    {q.conds[i].p : i \in DOMAIN q.conds} \cup ({q.limit, q.offset} \ {0})

\* the row satisfies a WHERE condition with value v bound to it
Holds(l, col, v) ==
    CASE col = "status" -> l.status = v
      [] col = "startDate" -> l.created_at >= v
      [] col = "endDate" -> l.created_at <= v
      [] col = "search" ->
            ILike(l.name, v) \/ ILike(l.phone, v) \/ ILike(l.last_message, v)

\* the orders ORDER BY created_at DESC can return the rows in
Orderings(rows) ==
    {s \in [1..Cardinality(rows) -> rows] :
        \A i, j \in 1..Cardinality(rows) :
            i < j => s[i] # s[j] /\ s[i].created_at >= s[j].created_at}

\* LIMIT limit OFFSET offset (0: clause absent)
Slice(s, limit, offset) ==
    LET last == IF limit = 0 \/ offset + limit > Len(s) THEN Len(s)
                ELSE offset + limit
    IN SubSeq(s, offset + 1, last)

\* getLeads(filters): [ok, results]; ok is FALSE when the call throws (an
\* invalid status, or a query whose placeholders and values do not match:
\* pool.query rejects it); results are the row sequences the query can
\* return.
getLeads(ls, filters) ==
    LET q == BuildQuery(filters)
        bound == \A p \in Placeholders(q) : p <= Len(q.values)
        rows == {l \in ls : \A i \in DOMAIN q.conds :
                               Holds(l, q.conds[i].col, q.values[q.conds[i].p])}
        limit == IF q.limit = 0 THEN 0 ELSE q.values[q.limit]
        offset == IF q.offset = 0 THEN 0 ELSE q.values[q.offset]
    IN IF filters.status # "" /\ ~validateStatus(filters.status)
       THEN [ok |-> FALSE, results |-> {}]
       ELSE IF ~bound \/ Placeholders(q) # 1..Len(q.values)
       THEN [ok |-> FALSE, results |-> {}]
       ELSE [ok |-> TRUE, results |-> {Slice(s, limit, offset) : s \in Orderings(rows)}]

\* ------------------------------------------------------------------------
\* Inputs: transport messages, contact cards, REST request bodies
\* ------------------------------------------------------------------------
P1 == <<"9", "9", "4", "5", "0", "1", "1", "1">>
P2 == <<"9", "9", "4", "5", "0", "2", "2", "2">>
\* passes the raw-number check of processMessage, fails validatePhone
P7 == <<"1", "2", "3", "4", "5", "6", "7">>
\* fails the raw-number check of processMessage
P4 == <<"1", "2", "3", "4">>
OwnNumber == <<"9", "9", "4", "5", "0", "0", "0", "0">>

Jid(user) == user \o <<"@", "c", ".", "u", "s">>

StatusBroadcast ==
    <<"s", "t", "a", "t", "u", "s", "@", "b", "r", "o", "a", "d", "c", "a", "s", "t">>

Msg(id, from, to, fromMe, body, getContact) ==
    [id |-> id, from |-> from, to |-> to, fromMe |-> fromMe, body |-> body,
     hasGetContact |-> getContact]

\* events that processMessage accepts
ValidMsgs ==
    { Msg(<<"m1">>, Jid(P1), Jid(OwnNumber), FALSE, <<"a">>, TRUE),
      Msg(<<"m2">>, Jid(P1), Jid(OwnNumber), FALSE, <<"b">>, FALSE),
      Msg(<<"m3">>, Jid(OwnNumber), Jid(P2), TRUE, <<"a">>, TRUE),
      Msg(<<"m4">>, Jid(P7), Jid(OwnNumber), FALSE, <<"b">>, FALSE) }

\* events that processMessage filters out
FilteredMsgs ==
    { Msg(<<"m5">>, Jid(P1), Jid(OwnNumber), FALSE, <<>>, FALSE),
      Msg(<<"m6">>, Jid(P1), Jid(OwnNumber), FALSE, <<" ", " ">>, FALSE),
      Msg(<<"m7">>, StatusBroadcast, Jid(OwnNumber), FALSE, <<"a">>, FALSE),
      Msg(NULL, Jid(P1), Jid(OwnNumber), FALSE, <<"a">>, FALSE),
      Msg(<<"m9">>, Jid(P4), Jid(OwnNumber), FALSE, <<"a">>, FALSE) }

Msgs == ValidMsgs \cup FilteredMsgs

\* what msg.getContact() can resolve to; "throws" is a rejected promise
ContactResults ==
    { [throws |-> TRUE, pushname |-> NULL, name |-> NULL],
      [throws |-> FALSE, pushname |-> <<"A", "l">>, name |-> <<"B", "o">>],
      [throws |-> FALSE, pushname |-> <<>>, name |-> <<"A", "l">>],
      [throws |-> FALSE, pushname |-> NULL, name |-> NULL] }

NoValue == [kind |-> "none", v |-> 0]
Num(n) == [kind |-> "num", v |-> n]

Body(phone, name, last_message, source_message, source_contact_name, whatsapp_id, status, source, value, product_name) ==
    [phone |-> phone, name |-> name, last_message |-> last_message,
     source_message |-> source_message,
     source_contact_name |-> source_contact_name,
     whatsapp_id |-> whatsapp_id, status |-> status, source |-> source,
     value |-> value, product_name |-> product_name]

\* request bodies of POST /api/leads
PostBodies ==
    { Body(<<"+">> \o P1, <<"~">> \o P1, <<"a">>, <<"a">>, <<"~">> \o P1,
           <<"m1">>, "new", "whatsapp", Num(0), NULL),
      Body(P2, <<"B", "o">>, NULL, NULL, NULL, NULL, "potential", "manual",
           Num(5), <<"x">>),
      Body(P1, NULL, NULL, NULL, NULL, NULL, "", "", NoValue, NULL),
      Body(P4, NULL, <<"a">>, NULL, NULL, NULL, "new", "", Num(0), NULL) }

\* status values of PUT /api/leads/:id/status
PutStatuses == {"lost", "won", "bogus"}

Str(text) == [kind |-> "str", v |-> text]
NotANumber == [kind |-> "nan", v |-> 0]

\* request bodies of POST /api/leads used against the store directly:
\* a full manual lead; the same phone with nothing else; the same phone
\* with other first-message fields, status 'contacted' and the value "5x";
\* a second phone with a WhatsApp id; and three bodies a domain rule fails
StoreBodies ==
    { Body(P2, <<"B", "o">>, <<"a">>, <<"a">>, <<"B", "o">>, NULL,
           "potential", "manual", Num(5), <<"x">>),
      Body(P2, NULL, NULL, NULL, NULL, NULL, "", "", NoValue, NULL),
      Body(<<"+">> \o P2, NULL, <<"b">>, <<"b">>, <<"A", "l">>, NULL,
           "contacted", "", Str(<<"5", "x">>), NULL),
      Body(P1, NULL, <<"a">>, NULL, NULL, <<"m1">>, "contacted", "whatsapp",
           Str(<<>>), NULL),
      Body(P1, NULL, NULL, NULL, NULL, NULL, "bogus", "", NoValue, NULL),
      Body(P1, NULL, NULL, NULL, NULL, NULL, "new", "", Num(0 - 1), NULL),
      Body(P4, NULL, NULL, NULL, NULL, NULL, "new", "", NoValue, NULL) }

StoreStatuses == {"won", "contacted", "bogus"}

\* values handed to updateLeadValue
StoreValues ==
    { NoValue, Str(<<>>), Num(7), Num(0 - 1), Str(<<"5", "x">>),
      Str(<<"-", "3">>), Str(<<"x">>), NotANumber, Num(MaxDecimal + 1) }

\* filters handed to getLeads: every combination of supplied and omitted
Filters ==
    [status : {"", "won", "new"}, startDate : {0, TickMs}, endDate : {0, TickMs},
     search : {NULL, <<"b">>}, limit : {0, 1}, offset : {0, 1}]

\* the filters GET /api/leads takes from the query string
HttpFilters == {f \in Filters : f.search = NULL}

\* ------------------------------------------------------------------------
\* State
\* ------------------------------------------------------------------------
VARIABLES
    databaseUrl,        \* process.env.DATABASE_URL is set
    leads,              \* rows of the leads table
    nextId,             \* next id the table generates
    processedMessages,  \* Map messageId -> timestamp
    now,                \* Date.now() / NOW()
    ticks,              \* clock ticks so far
    lastSweep,          \* when the cleanup interval last fired
    tasks,              \* accepted processMessage runs, in acceptance order
    emits,              \* bag of new_message payloads given to io.emit
    leadUpdated,        \* bag of lead_updated payloads given to io.emit
    apiCalls,           \* REST requests served so far
    inbox,              \* per connected dashboard: socket events the
                        \* socket has not delivered yet
    handlers,           \* per connected dashboard: running lead_updated
                        \* handlers
    cache,              \* per connected dashboard: localStorage lead cache
    dupDrop,            \* history: ids of duplicates dropped inside the
                        \* retention window after a sweep that followed
                        \* the first delivery
    isReady,            \* the WhatsApp client has emitted 'ready'
    chatReqs,           \* GET /chats/recent requests received so far
    listeners,          \* per connected dashboard: how many times
                        \* setupSocketListeners has registered its handlers
                        \* on the socket
    list                \* per connected dashboard: the Store's lead list
                        \* (React state `leads`)

dashVars == <<inbox, handlers, cache>>

webVars == <<isReady, chatReqs, listeners, list>>

vars == <<databaseUrl, leads, nextId, processedMessages, now, ticks, lastSweep,
          tasks, emits, leadUpdated, apiCalls, dupDrop, dashVars, webVars>>

Init ==
    /\ databaseUrl \in BOOLEAN
    /\ leads = {}
    /\ nextId = 1
    /\ processedMessages = << >>
    /\ now = 0
    /\ ticks = 0
    /\ lastSweep = 0
    /\ tasks = << >>
    /\ emits = EmptyBag
    /\ leadUpdated = EmptyBag
    /\ apiCalls = 0
    /\ dupDrop = {}
    /\ inbox = << >>
    /\ handlers = << >>
    /\ cache = << >>
    /\ isReady = FALSE
    /\ chatReqs = << >>
    /\ listeners = << >>
    /\ list = << >>

\* ------------------------------------------------------------------------
\* processMessage (server/index.cjs)
\* ------------------------------------------------------------------------
Emit(bag, payload) == bag (+) SetToBag({payload})

\* msg.fromMe ? msg.to.split('@')[0] : msg.from.split('@')[0]
RawNumber(m) == SplitAtFirst(IF m.fromMe THEN m.to ELSE m.from)

FastName(rawNumber) == <<"~">> \o rawNumber

DefaultContactName(rawNumber) == <<"+">> \o rawNumber

FastPayload(m, t) ==
    [phone |-> RawNumber(m), name |-> FastName(RawNumber(m)),
     message |-> m.body, whatsapp_id |-> m.id, fromMe |-> m.fromMe,
     timestamp |-> t, is_fast_emit |-> TRUE]

EnrichedPayload(fast, contactName) ==
    [fast EXCEPT !.name = contactName, !.is_fast_emit = FALSE]

\* contact.pushname || contact.name || contactName
ContactName(card, rawNumber) ==
    IF card.throws THEN DefaultContactName(rawNumber)
    ELSE Or(card.pushname, Or(card.name, DefaultContactName(rawNumber)))

\* the contact lookup supplied a name of its own
Resolved(card) == ~card.throws /\ (~Falsy(card.pushname) \/ ~Falsy(card.name))

NewTask(m, t) ==
    [msg |-> m, whatsappId |-> m.id, rawNumber |-> RawNumber(m),
     pc |-> "contact", contactName |-> NULL, resolved |-> FALSE,
     existing |-> FALSE, acceptedAt |-> t, outcome |-> ""]

\* processMessage from the name resolution result up to the first store
\* call: build the enriched payload, emit it "if name changed", then enter
\* the persistence block when DATABASE_URL is set.
AfterContact(task, contactName, resolved, bag) ==
    LET fast == FastPayload(task.msg, task.acceptedAt)
        enriched == EnrichedPayload(fast, contactName)
    IN [task |-> [task EXCEPT !.contactName = contactName,
                              !.resolved = resolved,
                              !.pc = IF databaseUrl THEN "findWa" ELSE "done",
                              !.outcome = IF databaseUrl THEN "" ELSE "no_db"],
        emits |-> IF enriched.name # fast.name THEN Emit(bag, enriched) ELSE bag,
        sent |-> IF enriched.name # fast.name THEN <<enriched>> ELSE << >>]

\* io.emit('new_message', payload) for each payload of `sent`, in order: one
\* event per payload to every connected socket
BroadcastMessages(boxes, sent) ==
    [d \in DOMAIN boxes |->
        boxes[d] \o [i \in 1..Len(sent) |->
                        [event |-> "new_message", data |-> sent[i]]]]

\* processedMessages.has(whatsappId)
Seen(pm, whatsappId) == whatsappId \in DOMAIN pm

\* Wrong gate: the id is not recorded in the synchronous part of the run, so
\* the check and the insert are separated by the run's first suspension.
MarkProcessedLate(pm, whatsappId, t) == pm

\* processedMessages.set(whatsappId, Date.now())
MarkProcessed(pm, whatsappId, t) ==
    [k \in DOMAIN pm \cup {whatsappId} |-> IF k = whatsappId THEN t ELSE pm[k]]

\* processMessage(msg, type): the synchronous part, from the filters to the
\* first await.
processMessage(m) ==
    LET whatsappId == m.id
        rawNumber == RawNumber(m)
    IN
    IF m.from = StatusBroadcast THEN UNCHANGED vars
    ELSE IF Falsy(m.body) \/ TrimIsEmpty(m.body) THEN UNCHANGED vars
    ELSE IF Falsy(whatsappId) THEN UNCHANGED vars
    ELSE IF Seen(processedMessages, whatsappId)
    THEN /\ dupDrop' =
              IF /\ now - processedMessages[whatsappId] <= PROCESSED_MESSAGES_TTL
                 /\ lastSweep > processedMessages[whatsappId]
              THEN dupDrop \cup {whatsappId}
              ELSE dupDrop
         /\ UNCHANGED <<webVars, dashVars, databaseUrl, leads, nextId, processedMessages, now,
                        ticks, lastSweep, tasks, emits, leadUpdated, apiCalls>>
    ELSE /\ processedMessages' = MarkProcessed(processedMessages, whatsappId, now)
         /\ IF Falsy(rawNumber) \/ Len(rawNumber) < MinRawNumberLen
            THEN UNCHANGED <<tasks, emits, inbox>>
            ELSE /\ Len(tasks) < MaxTasks
                 /\ LET task == NewTask(m, now)
                        fast == FastPayload(m, now)
                        fastBag == Emit(emits, fast)
                    IN IF m.hasGetContact
                       THEN /\ tasks' = Append(tasks, task)
                            /\ emits' = fastBag
                            /\ inbox' = BroadcastMessages(inbox, <<fast>>)
                       ELSE LET r == AfterContact(task,
                                        DefaultContactName(rawNumber), FALSE, fastBag)
                            IN /\ tasks' = Append(tasks, r.task)
                               /\ emits' = r.emits
                               /\ inbox' = BroadcastMessages(inbox, <<fast>> \o r.sent)
         /\ UNCHANGED <<webVars, handlers, cache, databaseUrl, leads, nextId, now, ticks,
                        lastSweep, leadUpdated, apiCalls, dupDrop>>

\* client.on('message', ...)
OnMessage == \E m \in Msgs : processMessage(m)

\* client.on('message_create', ...)
OnMessageCreate ==
    \E m \in Msgs : IF m.fromMe THEN processMessage(m) ELSE UNCHANGED vars

\* Wrong scheduling: the handlers queue their runs, and a run resumes only
\* when every run accepted before it has ended.
AwaitingInTurn(ts, i, pc) ==
    ts[i].pc = pc /\ \A j \in 1..(i - 1) : ts[j].pc = "done"

\* run i is suspended at the await named pc and resumes when that call
\* settles; the handlers start processMessage without awaiting it, so no
\* run waits for another
Awaiting(ts, i, pc) == ts[i].pc = pc

\* await msg.getContact() settles
ContactSettles(i) ==
    /\ Awaiting(tasks, i, "contact")
    /\ \E card \in ContactResults :
         LET r == AfterContact(tasks[i], ContactName(card, tasks[i].rawNumber),
                               Resolved(card), emits)
         IN /\ tasks' = [tasks EXCEPT ![i] = r.task]
            /\ emits' = r.emits
            /\ inbox' = BroadcastMessages(inbox, r.sent)
    /\ UNCHANGED <<webVars, handlers, cache, databaseUrl, leads, nextId, processedMessages,
                   now, ticks, lastSweep, leadUpdated, apiCalls, dupDrop>>

\* Wrong error handling: after a failed store call the run starts its
\* persistence block again.
FinishRetries(task, outcome) ==
    [task EXCEPT !.outcome = outcome,
                 !.pc = IF outcome = "db_error" THEN "findWa" ELSE "done"]

\* the run leaves the persistence block (its end, or the catch of dbError)
Finish(task, outcome) == [task EXCEPT !.pc = "done", !.outcome = outcome]

\* await db.findLeadByWhatsAppId(whatsappId) settles
FindByWhatsAppId(i) ==
    /\ Awaiting(tasks, i, "findWa")
    /\ \E storeDown \in BOOLEAN :
         LET r == findLeadByWhatsAppId(leads, tasks[i].whatsappId)
         IN tasks' = [tasks EXCEPT ![i] =
               IF storeDown \/ ~r.ok THEN Finish(@, "db_error")
               ELSE IF r.rows # {} THEN [@ EXCEPT !.existing = TRUE, !.pc = "write"]
               ELSE [@ EXCEPT !.pc = "findPhone"]]
    /\ UNCHANGED <<webVars, dashVars, databaseUrl, leads, nextId, processedMessages, now, ticks,
                   lastSweep, emits, leadUpdated, apiCalls, dupDrop>>

\* await db.findLeadByPhone(rawNumber) settles
FindByPhone(i) ==
    /\ Awaiting(tasks, i, "findPhone")
    /\ \E storeDown \in BOOLEAN :
         LET r == findLeadByPhone(leads, tasks[i].rawNumber)
         IN tasks' = [tasks EXCEPT ![i] =
               IF storeDown \/ ~r.ok THEN Finish(@, "db_error")
               ELSE [@ EXCEPT !.existing = (r.rows # {}), !.pc = "write"]]
    /\ UNCHANGED <<webVars, dashVars, databaseUrl, leads, nextId, processedMessages, now, ticks,
                   lastSweep, emits, leadUpdated, apiCalls, dupDrop>>

\* the data object processMessage hands to db.createLead
NewLeadData(task) ==
    Body(task.rawNumber, task.contactName, task.msg.body, NULL, NULL,
         task.whatsappId, "new", "whatsapp", NoValue, NULL)

\* the store call of the persistence block:
\* existingLead ? db.updateLeadMessage(...) : db.createLead({...})
StoreWrite(ls, task, t, newId) ==
    IF task.existing
    THEN updateLeadMessage(ls, task.rawNumber, task.msg.body, task.whatsappId,
                           task.contactName, t)
    ELSE createLead(ls, NewLeadData(task), t, newId)

\* await db.updateLeadMessage(...) / await db.createLead(...) settles
Persist(i) ==
    /\ Awaiting(tasks, i, "write")
    /\ \E storeDown \in BOOLEAN :
         LET r == StoreWrite(leads, tasks[i], now, nextId)
             inserted == \E l \in r.leads : l.id = nextId
         IN IF storeDown \/ ~r.ok
            THEN /\ tasks' = [tasks EXCEPT ![i] = Finish(@, "db_error")]
                 /\ UNCHANGED <<leads, nextId>>
            ELSE /\ leads' = r.leads
                 /\ nextId' = IF inserted THEN nextId + 1 ELSE nextId
                 /\ tasks' = [tasks EXCEPT ![i] = Finish(@,
                        IF tasks[i].existing
                        THEN IF r.rows = {} THEN "update_missed" ELSE "updated"
                        ELSE IF inserted THEN "created" ELSE "upserted")]
    /\ UNCHANGED <<webVars, dashVars, databaseUrl, processedMessages, now, ticks, lastSweep, emits,
                   leadUpdated, apiCalls, dupDrop>>

\* ------------------------------------------------------------------------
\* The dedup cache's cleanup interval and the clock (server/index.cjs)
\* ------------------------------------------------------------------------
\* Wrong age test: the sweep drops every entry that is not brand new.
RetainedOnlyNew(pm, t) ==
    {k \in DOMAIN pm : ~(t - pm[k] > 0)}

\* entries the sweep keeps
Retained(pm, t) ==
    {k \in DOMAIN pm : ~(t - pm[k] > PROCESSED_MESSAGES_TTL)}

\* setInterval(() => {...}, 60000)
Cleanup ==
    /\ now - lastSweep >= CLEANUP_INTERVAL
    /\ processedMessages' =
           [k \in Retained(processedMessages, now) |-> processedMessages[k]]
    /\ lastSweep' = now
    /\ UNCHANGED <<webVars, dashVars, databaseUrl, leads, nextId, now, ticks, tasks, emits,
                   leadUpdated, apiCalls, dupDrop>>

\* Wrong race: no timeout promise takes part, the request waits for the
\* transport alone.
TimerNever(req, t) == FALSE

\* the timeout promise of a GET /chats/recent request rejects
TimerDue(req, t) == t - req.startedAt >= CHATS_TIMEOUT

\* time passes; a due timer (cleanup interval, chats timeout) fires before
\* time moves on
Tick ==
    /\ ticks < MaxTicks
    /\ now - lastSweep < CLEANUP_INTERVAL
    /\ \A k \in 1..Len(chatReqs) :
          ~(chatReqs[k].pc = "race" /\ TimerDue(chatReqs[k], now))
    /\ now' = now + TickMs
    /\ ticks' = ticks + 1
    /\ UNCHANGED <<webVars, dashVars, databaseUrl, leads, nextId, processedMessages, lastSweep,
                   tasks, emits, leadUpdated, apiCalls, dupDrop>>

\* ------------------------------------------------------------------------
\* REST endpoints (server/index.cjs)
\* ------------------------------------------------------------------------
\* What serving a request does: [code |-> HTTP status of the response,
\* leads |-> table after the request, rows |-> the lead in the response].
\* storeDown: the store call fails for a reason of the store's own
\* (connection lost, pool exhausted).
\* app.post('/api/leads', ...)
PostLeadOutcome(ls, body, t, newId, dbUrl, storeDown) ==
    LET r == createLead(ls, body, t, newId)
    IN IF ~dbUrl THEN [code |-> 503, leads |-> ls, rows |-> {}]
       ELSE IF storeDown \/ ~r.ok THEN [code |-> 500, leads |-> ls, rows |-> {}]
       ELSE [code |-> 201, leads |-> r.leads, rows |-> r.rows]

\* app.put('/api/leads/:id/status', ...); the lead in a 200 response is
\* also the lead_updated payload
PutStatusOutcome(ls, id, status, t, dbUrl, storeDown) ==
    LET r == updateLeadStatus(ls, id, status, t)
    IN IF ~dbUrl THEN [code |-> 503, leads |-> ls, rows |-> {}]
       ELSE IF storeDown \/ ~r.ok THEN [code |-> 500, leads |-> ls, rows |-> {}]
       ELSE IF r.rows = {} THEN [code |-> 404, leads |-> ls, rows |-> {}]
       ELSE [code |-> 200, leads |-> r.leads, rows |-> r.rows]

\* app.delete('/api/leads/:id', ...)
DeleteLeadOutcome(ls, id, dbUrl, storeDown) ==
    LET r == deleteLead(ls, id)
    IN IF ~dbUrl THEN [code |-> 503, leads |-> ls, rows |-> {}]
       ELSE IF storeDown \/ ~r.ok THEN [code |-> 500, leads |-> ls, rows |-> {}]
       ELSE IF r.rows = {} THEN [code |-> 404, leads |-> ls, rows |-> {}]
       ELSE [code |-> 200, leads |-> r.leads, rows |-> r.rows]

\* ids a request path can carry: the ids handed out so far, the next one
\* (a UUID no lead has) and text that is not a UUID
RequestIds == {MalformedId} \cup 1..nextId

\* POST /api/leads served
PostLead(body) ==
    /\ apiCalls < MaxApi
    /\ apiCalls' = apiCalls + 1
    /\ \E storeDown \in BOOLEAN :
         LET o == PostLeadOutcome(leads, body, now, nextId, databaseUrl, storeDown)
         IN /\ leads' = o.leads
            /\ nextId' = IF \E l \in o.leads : l.id = nextId
                         THEN nextId + 1 ELSE nextId
    /\ UNCHANGED <<webVars, dashVars, databaseUrl, processedMessages, now, ticks, lastSweep, tasks,
                   emits, leadUpdated, dupDrop>>

\* io.emit('lead_updated', lead): one event to every connected socket
Broadcast(boxes, lead) ==
    [d \in DOMAIN boxes |->
        Append(boxes[d], [event |-> "lead_updated", data |-> lead])]

\* app.put('/api/leads/:id/status', ...): what serving one request does to
\* the store and to the sockets
ServePutStatus(id, status) ==
    \E storeDown \in BOOLEAN :
      LET o == PutStatusOutcome(leads, id, status, now, databaseUrl, storeDown)
      IN IF o.rows = {}
         THEN UNCHANGED <<leads, leadUpdated, inbox>>
         ELSE LET lead == CHOOSE l \in o.rows : TRUE
              IN /\ leads' = o.leads
                 /\ leadUpdated' = Emit(leadUpdated, lead)
                 /\ inbox' = Broadcast(inbox, lead)

\* PUT /api/leads/:id/status requested by a client of the REST API
PutStatus(id, status) ==
    /\ apiCalls < MaxApi
    /\ apiCalls' = apiCalls + 1
    /\ ServePutStatus(id, status)
    /\ UNCHANGED <<webVars, handlers, cache, databaseUrl, nextId, processedMessages, now,
                   ticks, lastSweep, tasks, emits, dupDrop>>

\* app.delete('/api/leads/:id', ...)
DeleteLead(id) ==
    /\ apiCalls < MaxApi
    /\ apiCalls' = apiCalls + 1
    /\ \E storeDown \in BOOLEAN :
         leads' = DeleteLeadOutcome(leads, id, databaseUrl, storeDown).leads
    /\ UNCHANGED <<webVars, dashVars, databaseUrl, nextId, processedMessages, now, ticks, lastSweep,
                   tasks, emits, leadUpdated, dupDrop>>

\* app.get('/api/leads', ...): db.getLeads with the filters of the query
\* string; the store is read, nothing is written
GetApiLeads(f) ==
    /\ apiCalls < MaxApi
    /\ apiCalls' = apiCalls + 1
    /\ \E storeDown \in BOOLEAN :
         \E r \in {getLeads(leads, f)} :
            (storeDown \/ ~r.ok \/ r.results # {}) /\ leads' = leads
    /\ UNCHANGED <<webVars, dashVars, databaseUrl, nextId, processedMessages, now,
                   ticks, lastSweep, tasks, emits, leadUpdated, dupDrop>>

\* db.updateLeadValue(id, value) called on the store
UpdateValue(id, value) ==
    /\ databaseUrl
    /\ \E storeDown \in BOOLEAN :
         LET r == updateLeadValue(leads, id, value, now)
         IN leads' = IF storeDown \/ ~r.ok THEN leads ELSE r.leads
    /\ UNCHANGED <<webVars, dashVars, databaseUrl, nextId, processedMessages, now, ticks,
                   lastSweep, tasks, emits, leadUpdated, apiCalls, dupDrop>>

\* ------------------------------------------------------------------------
\* GET /chats/recent (server/index.cjs)
\* ------------------------------------------------------------------------
\* client.on('ready', ...)
ClientReady ==
    /\ ~isReady
    /\ isReady' = TRUE
    /\ UNCHANGED <<dashVars, databaseUrl, leads, nextId, processedMessages, now,
                   ticks, lastSweep, tasks, emits, leadUpdated, apiCalls, dupDrop,
                   chatReqs, listeners, list>>

\* client.on('disconnected', ...)
ClientDisconnected ==
    /\ isReady
    /\ isReady' = FALSE
    /\ UNCHANGED <<dashVars, databaseUrl, leads, nextId, processedMessages, now,
                   ticks, lastSweep, tasks, emits, leadUpdated, apiCalls, dupDrop,
                   chatReqs, listeners, list>>

\* how the promise of client.getChats() settles: with a chat array, with a
\* value the mapping of the handler throws on, or rejected
ChatResults == {"chats", "malformed", "rejects"}

\* res.status(code).json(...) / res.json(...) of a request: body is
\* "error", "chats" (the mapped list) or "empty" ([])
Answered(req, result, code, body) ==
    [req EXCEPT !.pc = "answered", !.result = result, !.code = code, !.body = body]

\* app.get('/chats/recent', ...) up to its await: 503 when the client is
\* not ready; [] when client.getChats() throws; otherwise the race starts
ChatsRecent ==
    /\ Len(chatReqs) < MaxChatReqs
    /\ ticks < MaxTicks
    /\ \E throws \in BOOLEAN :
         LET req == [pc |-> "race", ready |-> isReady, startedAt |-> now,
                     result |-> "", code |-> 0, body |-> ""]
         IN chatReqs' = Append(chatReqs,
                IF ~isReady THEN Answered(req, "not_ready", 503, "error")
                ELSE IF throws THEN Answered(req, "throws", 200, "empty")
                ELSE req)
    /\ UNCHANGED <<dashVars, databaseUrl, leads, nextId, processedMessages, now,
                   ticks, lastSweep, tasks, emits, leadUpdated, apiCalls, dupDrop,
                   isReady, listeners, list>>

\* the promise of client.getChats() settles before the timeout: the race
\* ends with it
GetChatsSettles(k) ==
    /\ chatReqs[k].pc = "race"
    /\ ~TimerDue(chatReqs[k], now)
    /\ \E r \in ChatResults :
         chatReqs' = [chatReqs EXCEPT ![k] =
             Answered(@, r, 200, IF r = "chats" THEN "chats" ELSE "empty")]
    /\ UNCHANGED <<dashVars, databaseUrl, leads, nextId, processedMessages, now,
                   ticks, lastSweep, tasks, emits, leadUpdated, apiCalls, dupDrop,
                   isReady, listeners, list>>

\* the timeout promise rejects first: the catch answers []
ChatsTimeout(k) ==
    /\ chatReqs[k].pc = "race"
    /\ TimerDue(chatReqs[k], now)
    /\ chatReqs' = [chatReqs EXCEPT ![k] = Answered(@, "timeout", 200, "empty")]
    /\ UNCHANGED <<dashVars, databaseUrl, leads, nextId, processedMessages, now,
                   ticks, lastSweep, tasks, emits, leadUpdated, apiCalls, dupDrop,
                   isReady, listeners, list>>

\* ------------------------------------------------------------------------
\* Dashboard: the socket and its listeners (src/services/CrmService.ts)
\* ------------------------------------------------------------------------
\* connectToServer(url) succeeds: an existing socket is disconnected and
\* dropped with what it had not delivered, a new one is created, its
\* 'connect' fires and setupSocketListeners registers the handlers on it
ConnectToServer(d) ==
    /\ listeners' = [listeners EXCEPT ![d] = 1]
    /\ inbox' = [inbox EXCEPT ![d] = << >>]
    /\ UNCHANGED <<handlers, cache, databaseUrl, leads, nextId, processedMessages,
                   now, ticks, lastSweep, tasks, emits, leadUpdated, apiCalls,
                   dupDrop, isReady, chatReqs, list>>

\* setupSocketListeners(): one more socket.on(...) for every event name on
\* a socket that already carries n sets of handlers
ListenersAfterSetup(n) == n + 1

\* the transport was lost and socket.io-client reconnected on its own
\* (reconnection: true): 'connect' fires again on the same socket and its
\* handler calls setupSocketListeners() once more
Reconnect(d) ==
    /\ listeners[d] < MaxListeners
    /\ listeners' = [listeners EXCEPT ![d] = ListenersAfterSetup(@)]
    /\ UNCHANGED <<dashVars, databaseUrl, leads, nextId, processedMessages,
                   now, ticks, lastSweep, tasks, emits, leadUpdated, apiCalls,
                   dupDrop, isReady, chatReqs, list>>

\* the socket invokes every handler registered for the event
Copies(n, h) == [i \in 1..n |-> h]

\* ------------------------------------------------------------------------
\* Dashboard: the lead_updated socket handler (src/services/CrmService.ts)
\* ------------------------------------------------------------------------
\* updateLead's cache write: allLeads.map(l => l.id === id ? {...l,
\* ...updates, updated_at: now} : l)
CacheMerge(cached, id, updates, t) ==
    {IF l.id = id
     THEN [f \in DOMAIN l \cup DOMAIN updates \cup {"updated_at"} |->
              IF f = "updated_at" THEN t
              ELSE IF f \in DOMAIN updates THEN updates[f] ELSE l[f]]
     ELSE l
        : l \in cached}

\* the socket delivers a lead_updated event: the handler starts and awaits
\* this.getLeads() (GET /api/leads)
OnLeadUpdated(d) ==
    /\ inbox[d] # << >>
    /\ Head(inbox[d]).event = "lead_updated"
    /\ inbox' = [inbox EXCEPT ![d] = Tail(@)]
    /\ handlers' = [handlers EXCEPT ![d] =
           @ \o Copies(listeners[d],
                       [pc |-> "getLeads", updatedLead |-> Head(inbox[d]).data,
                        id |-> 0])]
    /\ UNCHANGED <<webVars, cache, databaseUrl, leads, nextId, processedMessages, now,
                   ticks, lastSweep, tasks, emits, leadUpdated, apiCalls, dupDrop>>

Without(seq, k) == SubSeq(seq, 1, k - 1) \o SubSeq(seq, k + 1, Len(seq))

\* prev.findIndex(l => l.id === lead.id || l.phone === lead.phone), counted
\* from 1; 0 when no entry matches
FindListed(lst, lead) ==
    LET hits == {i \in DOMAIN lst : lst[i].id = lead.id \/ lst[i].phone = lead.phone}
    IN IF hits = {} THEN 0 ELSE CHOOSE i \in hits : \A j \in hits : i <= j

\* the Store's onNewMessage listener, setLeads: the listed entry is removed
\* and the saved lead put on top
UpsertOnTop(lst, lead) ==
    LET k == FindListed(lst, lead)
    IN IF k # 0 THEN <<lead>> \o Without(lst, k) ELSE <<lead>> \o lst

\* the Store's onLeadUpdated listener, setLeads: the listed entry is
\* replaced where it stands, an unlisted lead is put on top
UpsertInPlace(lst, lead) ==
    LET k == FindListed(lst, lead)
    IN IF k # 0 THEN [lst EXCEPT ![k] = lead] ELSE <<lead>> \o lst

\* prev.map(l => l.id === id ? {...l, status} : l)
MapStatus(lst, id, status) ==
    [i \in DOMAIN lst |->
        IF lst[i].id = id THEN [lst[i] EXCEPT !.status = status] ELSE lst[i]]

\* prev.filter(l => l.id !== id)
FilterOut(lst, id) ==
    LET keep(l) == l.id # id
    IN SelectSeq(lst, keep)

\* GET /api/leads answers (server reachable, store configured): getLeads
\* caches the rows; the handler looks the lead up by phone and, when it is
\* listed, calls this.updateLead(existingLeads[index].id, updatedLead), which
\* issues PUT /api/leads/:id/status because updatedLead.status is set
GotLeads(d, k) ==
    /\ databaseUrl
    /\ handlers[d][k].pc = "getLeads"
    /\ cache' = [cache EXCEPT ![d] = leads]
    /\ LET h == handlers[d][k]
           found == {l \in leads : l.phone = h.updatedLead.phone}
       IN handlers' = [handlers EXCEPT ![d] =
              IF found = {} THEN Without(@, k)
              ELSE [@ EXCEPT ![k] = [h EXCEPT !.pc = "put",
                                              !.id = (CHOOSE l \in found : TRUE).id]]]
    /\ UNCHANGED <<webVars, inbox, databaseUrl, leads, nextId, processedMessages, now,
                   ticks, lastSweep, tasks, emits, leadUpdated, apiCalls, dupDrop>>

\* the server serves the handler's PUT /api/leads/:id/status; updateLead then
\* rewrites the cached lead, the handler hands the lead to the Store's
\* onLeadUpdated listener, which puts it into the list, and ends
HandlerPut(d, k) ==
    /\ handlers[d][k].pc = "put"
    /\ BagCardinality(leadUpdated) < MaxEmits
    /\ ServePutStatus(handlers[d][k].id, handlers[d][k].updatedLead.status)
    /\ cache' = [cache EXCEPT ![d] =
           CacheMerge(@, handlers[d][k].id, handlers[d][k].updatedLead, now)]
    /\ handlers' = [handlers EXCEPT ![d] = Without(@, k)]
    /\ list' = [list EXCEPT ![d] = UpsertInPlace(@, handlers[d][k].updatedLead)]
    /\ UNCHANGED <<databaseUrl, nextId, processedMessages, now, ticks, lastSweep,
                   tasks, emits, apiCalls, dupDrop, isReady, chatReqs, listeners>>

\* the dashboard loads its list: loadLeads -> CrmService.getLeads, which
\* caches the rows GET /api/leads answers with; setLeads(data) makes them
\* the list
LoadLeads(d) ==
    /\ databaseUrl
    /\ cache' = [cache EXCEPT ![d] = leads]
    /\ \E rows \in getLeads(leads, NoFilters).results :
         list' = [list EXCEPT ![d] = rows]
    /\ UNCHANGED <<inbox, handlers, databaseUrl, leads, nextId, processedMessages,
                   now, ticks, lastSweep, tasks, emits, leadUpdated, apiCalls,
                   dupDrop, isReady, chatReqs, listeners>>

\* the user sets the status of a listed lead: Store's updateLeadStatus ->
\* CrmService.updateStatus -> updateLead(id, {status}).  The PUT is served
\* when the server can be reached; whatever the answer, updateLead rewrites
\* the cached lead, and the Store maps the same status into its list.
UserSetStatus(d, l, status) ==
    /\ l \in cache[d]
    /\ BagCardinality(leadUpdated) < MaxEmits
    /\ \E reachable \in BOOLEAN :
         IF reachable THEN ServePutStatus(l.id, status)
         ELSE UNCHANGED <<leads, leadUpdated, inbox>>
    /\ cache' = [cache EXCEPT ![d] = CacheMerge(@, l.id, [status |-> status], now)]
    /\ list' = [list EXCEPT ![d] = MapStatus(@, l.id, status)]
    /\ UNCHANGED <<handlers, databaseUrl, nextId, processedMessages, now, ticks,
                   lastSweep, tasks, emits, apiCalls, dupDrop, isReady, chatReqs,
                   listeners>>

\* ------------------------------------------------------------------------
\* Dashboard: the new_message socket handler (src/services/CrmService.ts)
\* and the Store's onNewMessage listener (src/context/Store.tsx), with the
\* server in reach.  Rows GET /api/leads answers with carry no is_fast_emit,
\* so the handler's "update the fast lead" branch is never taken.
\* ------------------------------------------------------------------------
WhatsAppUser ==
    <<"W", "h", "a", "t", "s", "A", "p", "p", " ", "U", "s", "e", "r">>

\* an id crypto.randomUUID() makes up for a lead kept in the cache only
LocalId(cached) == 0 - (Cardinality({c \in cached : c.id < 0}) + 1)

Abs(n) == IF n < 0 THEN 0 - n ELSE n

\* the handler's newLead
NewLeadOf(data) ==
    Body(data.phone, Or(data.name, WhatsAppUser), data.message, NULL, NULL,
         data.whatsapp_id, "new", "whatsapp", Num(0), NULL)

\* the listener's leadToSave; savedLead.whatsapp_id is never empty here
LeadToSave(saved) ==
    Body(saved.phone, Or(saved.name, FastName(saved.phone)), saved.last_message,
         saved.last_message, saved.name, saved.whatsapp_id, "new", "whatsapp",
         Num(0), NULL)

\* CrmService.addLead(lead) once POST /api/leads was answered with o: on
\* 201 the saved row replaces the cached lead of its phone, otherwise the
\* lead is kept in the cache: [leads, cache, saved]
AddLeadAnswered(cached, ls, lead, t, o) ==
    LET existing == {c \in cached : c.phone = lead.phone}
    IN IF o.code = 201
       THEN LET saved == CHOOSE l \in o.rows : TRUE
            IN [leads |-> o.leads,
                cache |-> {saved} \cup {c \in cached : c.phone # saved.phone},
                saved |-> saved]
       ELSE IF existing # {}
       THEN LET e == CHOOSE c \in existing : TRUE
                upd == [e EXCEPT
                          !.last_message = lead.last_message,
                          !.updated_at = t,
                          !.name = IF Falsy(lead.name) THEN @ ELSE lead.name,
                          !.source_contact_name =
                              IF Falsy(lead.source_contact_name) THEN @
                              ELSE lead.source_contact_name,
                          !.source_message =
                              IF Falsy(lead.source_message) THEN @
                              ELSE lead.source_message,
                          !.whatsapp_id =
                              IF Falsy(lead.whatsapp_id) THEN @ ELSE lead.whatsapp_id]
            IN [leads |-> ls, cache |-> (cached \ {e}) \cup {upd}, saved |-> upd]
       ELSE LET newLead == [id |-> LocalId(cached), phone |-> lead.phone,
                            name |-> lead.name, last_message |-> lead.last_message,
                            source_message |-> lead.source_message,
                            source_contact_name |-> lead.source_contact_name,
                            whatsapp_id |-> lead.whatsapp_id,
                            status |-> lead.status, source |-> lead.source,
                            value |-> lead.value.v,
                            product_name |-> lead.product_name,
                            created_at |-> t, updated_at |-> t]
            IN [leads |-> ls, cache |-> cached \cup {newLead}, saved |-> newLead]

\* CrmService.addLead(lead)
AddLead(cached, ls, lead, t, newId, dbUrl, storeDown) ==
    AddLeadAnswered(cached, ls, lead, t,
                    PostLeadOutcome(ls, lead, t, newId, dbUrl, storeDown))

\* the socket delivers a new_message event: the handler starts and awaits
\* this.getLeads()
OnNewMessage(d) ==
    /\ inbox[d] # << >>
    /\ Head(inbox[d]).event = "new_message"
    /\ inbox' = [inbox EXCEPT ![d] = Tail(@)]
    /\ handlers' = [handlers EXCEPT ![d] =
           @ \o Copies(listeners[d],
                       [pc |-> "nmGetLeads", data |-> Head(inbox[d]).data,
                        saved |-> NULL])]
    /\ UNCHANGED <<webVars, cache, databaseUrl, leads, nextId, processedMessages, now,
                   ticks, lastSweep, tasks, emits, leadUpdated, apiCalls, dupDrop>>

\* GET /api/leads answers: a lead with the event's whatsapp_id, or one of
\* the same phone and message created within 30 s of the event, ends the
\* handler; otherwise it goes on to addLead(newLead)
NmGotLeads(d, k) ==
    /\ databaseUrl
    /\ handlers[d][k].pc = "nmGetLeads"
    /\ cache' = [cache EXCEPT ![d] = leads]
    /\ LET data == handlers[d][k].data
           known == \E l \in leads : l.whatsapp_id = data.whatsapp_id
           isContentDup ==
               \E l \in leads :
                   /\ l.phone = data.phone
                   /\ l.last_message = data.message
                   /\ Abs(l.created_at - data.timestamp) < PROCESSED_MESSAGES_TTL
       IN handlers' = [handlers EXCEPT ![d] =
              IF known \/ isContentDup THEN Without(@, k)
              ELSE [@ EXCEPT ![k].pc = "nmPost"]]
    /\ UNCHANGED <<webVars, inbox, databaseUrl, leads, nextId, processedMessages, now,
                   ticks, lastSweep, tasks, emits, leadUpdated, apiCalls, dupDrop>>

\* the handler's addLead(newLead) is served; the handler then hands the
\* saved lead to the Store's listener and ends
NmPost(d, k) ==
    /\ handlers[d][k].pc = "nmPost"
    /\ \E storeDown \in BOOLEAN :
         \E r \in {AddLead(cache[d], leads, NewLeadOf(handlers[d][k].data), now,
                           nextId, databaseUrl, storeDown)} :
            /\ leads' = r.leads
            /\ nextId' = IF \E l \in r.leads : l.id = nextId
                         THEN nextId + 1 ELSE nextId
            /\ cache' = [cache EXCEPT ![d] = r.cache]
            /\ handlers' = [handlers EXCEPT ![d][k] =
                   [@ EXCEPT !.pc = "listener", !.saved = r.saved]]
    /\ UNCHANGED <<webVars, inbox, databaseUrl, processedMessages, now, ticks, lastSweep,
                   tasks, emits, leadUpdated, apiCalls, dupDrop>>

\* the Store's listener: CrmService.addLead(leadToSave) is served and the
\* saved lead is put into the list
ListenerPost(d, k) ==
    /\ handlers[d][k].pc = "listener"
    /\ \E storeDown \in BOOLEAN :
         \E r \in {AddLead(cache[d], leads, LeadToSave(handlers[d][k].saved), now,
                           nextId, databaseUrl, storeDown)} :
            /\ leads' = r.leads
            /\ nextId' = IF \E l \in r.leads : l.id = nextId
                         THEN nextId + 1 ELSE nextId
            /\ cache' = [cache EXCEPT ![d] = r.cache]
            /\ list' = [list EXCEPT ![d] = UpsertOnTop(@, r.saved)]
    /\ handlers' = [handlers EXCEPT ![d] = Without(@, k)]
    /\ UNCHANGED <<inbox, databaseUrl, processedMessages, now, ticks, lastSweep,
                   tasks, emits, leadUpdated, apiCalls, dupDrop, isReady, chatReqs,
                   listeners>>

\* ------------------------------------------------------------------------
\* Dashboard: the Store's addLead and removeLead (src/context/Store.tsx)
\* ------------------------------------------------------------------------
RECURSIVE Includes(_, _)
\* text.includes(word)
Includes(text, word) ==
    IF Len(text) < Len(word) THEN FALSE
    ELSE IF SubSeq(text, 1, Len(word)) = word THEN TRUE
    ELSE Includes(Tail(text), word)

\* addLead's auto-sort of the status by words of the message, written in
\* lower case; the words with letters outside ASCII ('qiymet', 'neceye',
\* 'sifaris' in Azerbaijani spelling) are not in any message of the model
AutoSort(last_message) ==
    LET msg == IF Falsy(last_message) THEN << >>
               ELSE [i \in DOMAIN last_message |-> Lower(last_message[i])]
    IN IF Includes(msg, <<"p", "r", "i", "c", "e">>) THEN "potential"
       ELSE IF Includes(msg, <<"a", "l", "m", "a", "q">>)
                 \/ Includes(msg, <<"b", "u", "y">>) THEN "won"
       ELSE "new"

\* the user adds a lead by hand: Store's addLead -> CrmService.addLead
\* (POST /api/leads, the cache rewritten); the lead it returns is put on
\* top of the list
StoreAddLead(d, body) ==
    /\ Len(list[d]) < MaxList
    /\ \E storeDown \in BOOLEAN :
         \E r \in {AddLead(cache[d], leads,
                           [body EXCEPT !.status = AutoSort(body.last_message)],
                           now, nextId, databaseUrl, storeDown)} :
            /\ leads' = r.leads
            /\ nextId' = IF \E l \in r.leads : l.id = nextId
                         THEN nextId + 1 ELSE nextId
            /\ cache' = [cache EXCEPT ![d] = r.cache]
            /\ list' = [list EXCEPT ![d] = <<r.saved>> \o @]
    /\ UNCHANGED <<inbox, handlers, databaseUrl, processedMessages, now, ticks,
                   lastSweep, tasks, emits, leadUpdated, apiCalls, dupDrop, isReady,
                   chatReqs, listeners>>

\* the user removes a listed lead: Store's removeLead ->
\* CrmService.deleteLead(id), which rewrites the cache, then the list is
\* filtered; no request is sent to the server
RemoveLead(d, id) ==
    /\ \E i \in DOMAIN list[d] : list[d][i].id = id
    /\ cache' = [cache EXCEPT ![d] = {c \in @ : c.id # id}]
    /\ list' = [list EXCEPT ![d] = FilterOut(@, id)]
    /\ UNCHANGED <<inbox, handlers, databaseUrl, leads, nextId, processedMessages,
                   now, ticks, lastSweep, tasks, emits, leadUpdated, apiCalls,
                   dupDrop, isReady, chatReqs, listeners>>

NewMessages ==
    \/ \E d \in DOMAIN inbox : OnNewMessage(d)
    \/ \E d \in DOMAIN handlers : \E k \in 1..Len(handlers[d]) : NmGotLeads(d, k)
    \/ \E d \in DOMAIN handlers : \E k \in 1..Len(handlers[d]) : NmPost(d, k)
    \/ \E d \in DOMAIN handlers : \E k \in 1..Len(handlers[d]) : ListenerPost(d, k)

\* what the user of a dashboard does
User ==
    \/ \E d \in DOMAIN cache : LoadLeads(d)
    \/ \E d \in DOMAIN cache : \E l \in cache[d], status \in PutStatuses :
         UserSetStatus(d, l, status)
    \/ \E d \in DOMAIN list : \E i \in DOMAIN list[d] : RemoveLead(d, list[d][i].id)

\* leads the user adds by hand
ManualBodies == {body \in PostBodies : body.source = "manual"}

Adds == \E d \in DOMAIN list : \E body \in ManualBodies : StoreAddLead(d, body)

Dashboard ==
    \/ \E d \in DOMAIN inbox : OnLeadUpdated(d)
    \/ \E d \in DOMAIN handlers : \E k \in 1..Len(handlers[d]) : GotLeads(d, k)
    \/ \E d \in DOMAIN handlers : \E k \in 1..Len(handlers[d]) : HandlerPut(d, k)

\* ------------------------------------------------------------------------
\* Specifications
\* ------------------------------------------------------------------------
Ingest ==
    \/ OnMessage
    \/ OnMessageCreate
    \/ \E i \in 1..Len(tasks) : ContactSettles(i)
    \/ \E i \in 1..Len(tasks) : FindByWhatsAppId(i)
    \/ \E i \in 1..Len(tasks) : FindByPhone(i)
    \/ \E i \in 1..Len(tasks) : Persist(i)

Api ==
    \/ \E body \in PostBodies : PostLead(body)
    \/ \E id \in RequestIds, status \in PutStatuses : PutStatus(id, status)
    \/ \E id \in RequestIds : DeleteLead(id)

\* message ingestion interleaved with the REST endpoints, clock at rest
Next == Ingest \/ Api

Spec == Init /\ [][Next]_vars

\* message ingestion with the clock running and the cleanup interval firing
NextClock == Ingest \/ Cleanup \/ Tick

SpecClock == Init /\ [][NextClock]_vars

\* the store's write operations under requests of every kind, with the
\* clock running
StoreApi ==
    \/ \E body \in StoreBodies : PostLead(body)
    \/ \E id \in RequestIds, status \in StoreStatuses : PutStatus(id, status)
    \/ \E id \in RequestIds : DeleteLead(id)
    \/ \E id \in RequestIds, value \in StoreValues : UpdateValue(id, value)

InitStore == Init /\ databaseUrl

\* message ingestion with at most MaxStoreTasks accepted runs
IngestStore ==
    \/ Len(tasks) < MaxStoreTasks /\ OnMessage
    \/ Len(tasks) < MaxStoreTasks /\ OnMessageCreate
    \/ \E i \in 1..Len(tasks) : ContactSettles(i)
    \/ \E i \in 1..Len(tasks) : FindByWhatsAppId(i)
    \/ \E i \in 1..Len(tasks) : FindByPhone(i)
    \/ \E i \in 1..Len(tasks) : Persist(i)

NextStore == StoreApi \/ Tick

SpecStore == InitStore /\ [][NextStore]_vars

\* the life of a lead: one message run, the REST endpoints, value updates
\* and the clock
NextLife ==
    \/ IngestStore
    \/ Api
    \/ \E id \in RequestIds : UpdateValue(id, Num(7))
    \/ Tick

SpecLife == InitStore /\ [][NextLife]_vars

\* the REST endpoints with NumDashboards dashboards connected to the socket
InitDash ==
    /\ databaseUrl = TRUE
    /\ leads = {}
    /\ nextId = 1
    /\ processedMessages = << >>
    /\ now = 0
    /\ ticks = 0
    /\ lastSweep = 0
    /\ tasks = << >>
    /\ emits = EmptyBag
    /\ leadUpdated = EmptyBag
    /\ apiCalls = 0
    /\ dupDrop = {}
    /\ inbox = [d \in 1..NumDashboards |-> << >>]
    /\ handlers = [d \in 1..NumDashboards |-> << >>]
    /\ cache = [d \in 1..NumDashboards |-> {}]
    /\ isReady = FALSE
    /\ chatReqs = << >>
    /\ listeners = [d \in 1..NumDashboards |-> 1]
    /\ list = [d \in 1..NumDashboards |-> << >>]

NextDash == Api \/ Dashboard

SpecDash == InitDash /\ [][NextDash]_vars

\* one dashboard and its user, with the REST endpoints
InitUser ==
    /\ databaseUrl = TRUE
    /\ leads = {}
    /\ nextId = 1
    /\ processedMessages = << >>
    /\ now = 0
    /\ ticks = 0
    /\ lastSweep = 0
    /\ tasks = << >>
    /\ emits = EmptyBag
    /\ leadUpdated = EmptyBag
    /\ apiCalls = 0
    /\ dupDrop = {}
    /\ inbox = << << >> >>
    /\ handlers = << << >> >>
    /\ cache = << {} >>
    /\ isReady = FALSE
    /\ chatReqs = << >>
    /\ listeners = << 1 >>
    /\ list = << << >> >>

NextUser == Api \/ User \/ Dashboard

SpecUser == InitUser /\ [][NextUser]_vars

\* message ingestion with one dashboard handling the new_message events
NextInbox == IngestStore \/ NewMessages

SpecInbox == InitUser /\ [][NextInbox]_vars

\* the store under writes and under GET /api/leads queries of every kind
NextQuery ==
    \/ StoreApi
    \/ \E f \in HttpFilters : GetApiLeads(f)
    \/ Tick

SpecQuery == InitStore /\ [][NextQuery]_vars

\* one dashboard whose socket connects and reconnects while the server
\* emits new_message and lead_updated events; the handlers the deliveries
\* start stay at their first await (the dashboard's own requests are not
\* answered here)
Sockets ==
    \/ \E d \in DOMAIN listeners : ConnectToServer(d)
    \/ \E d \in DOMAIN listeners : Reconnect(d)

Deliveries ==
    \/ \E d \in DOMAIN inbox : OnNewMessage(d)
    \/ \E d \in DOMAIN inbox : OnLeadUpdated(d)

NextSocket == IngestStore \/ Api \/ Sockets \/ Deliveries

SpecSocket == InitUser /\ [][NextSocket]_vars

\* one dashboard's list under new_message events, leads added by hand and
\* lead_updated events
NextList == IngestStore \/ NewMessages \/ Adds

SpecList == InitUser /\ [][NextList]_vars

\* the steps that resume run i
Resume(i) ==
    \/ ContactSettles(i)
    \/ FindByWhatsAppId(i)
    \/ FindByPhone(i)
    \/ Persist(i)

\* message ingestion where the calls of the first accepted run owe no
\* answer and the calls of every later run do settle
SpecRuns ==
    /\ Init
    /\ [][Ingest]_vars
    /\ \A i \in 2..MaxTasks : WF_vars(i <= Len(tasks) /\ Resume(i))

\* GET /chats/recent with the clock running.  The clock and its timers are
\* fair; the transport owes no answer.
NextChats ==
    \/ ClientReady
    \/ ClientDisconnected
    \/ ChatsRecent
    \/ \E k \in 1..Len(chatReqs) : GetChatsSettles(k)
    \/ \E k \in 1..Len(chatReqs) : ChatsTimeout(k)
    \/ Tick
    \/ Cleanup

SpecChats ==
    /\ Init
    /\ [][NextChats]_vars
    /\ WF_vars(Tick)
    /\ WF_vars(Cleanup)
    /\ WF_vars(\E k \in 1..Len(chatReqs) : ChatsTimeout(k))

\* ------------------------------------------------------------------------
\* Helpers of the properties
\* ------------------------------------------------------------------------
\* the persistence block of processMessage run to completion on table ls
\* with no other store call in between: lookup by WhatsApp id, then by
\* phone, then the update or the create; a store error leaves ls as it is.
PersistOnce(st, m, contactName, t) ==
    LET byWa == findLeadByWhatsAppId(st.leads, m.id)
        byPhone == findLeadByPhone(st.leads, RawNumber(m))
        task == [NewTask(m, t) EXCEPT
                    !.contactName = contactName,
                    !.existing = (byWa.rows # {} \/ byPhone.rows # {})]
        r == StoreWrite(st.leads, task, t, st.nextId)
    IN IF byWa.rows = {} /\ ~byPhone.ok THEN st
       ELSE IF ~r.ok THEN st
       ELSE [leads |-> r.leads,
             nextId |-> IF \E l \in r.leads : l.id = st.nextId
                        THEN st.nextId + 1 ELSE st.nextId]

\* a lead without its update timestamp
SansUpdatedAt(l) == [f \in DOMAIN l \ {"updated_at"} |-> l[f]]

\* task i's store write settles in this step
Persisting(i) == tasks[i].pc = "write" /\ tasks'[i].pc = "done"

\* the digit-normalized phone of task i
TaskPhone(i) == StripNonDigits(tasks[i].rawNumber)

Applied == {"created", "updated", "upserted"}

\* enriched (is_fast_emit = false) new_message emissions of a message id
EnrichedOf(wid) ==
    {p \in BagToSet(emits) : p.whatsapp_id = wid /\ ~p.is_fast_emit}

RECURSIVE SumCopies(_, _)
SumCopies(S, bag) ==
    IF S = {} THEN 0
    ELSE LET x == CHOOSE y \in S : TRUE
         IN CopiesIn(x, bag) + SumCopies(S \ {x}, bag)

\* ------------------------------------------------------------------------
\* Properties
\* ------------------------------------------------------------------------
\* C1: in the relational store at most one lead exists per digit-normalized
\* phone, in every state of every interleaving of processMessage runs,
\* POST /api/leads upserts, status updates and deletes.
C1_OneLeadPerPhone ==
    \A l1, l2 \in leads :
        StripNonDigits(l1.phone) = StripNonDigits(l2.phone) => l1 = l2

\* two runs for different message ids of one unseen phone both looked the
\* phone up, found no lead, and both called createLead
C1_Witness ==
    \E i, j \in 1..Len(tasks) :
        /\ i # j
        /\ tasks[i].whatsappId # tasks[j].whatsappId
        /\ tasks[i].rawNumber = tasks[j].rawNumber
        /\ ~tasks[i].existing /\ ~tasks[j].existing
        /\ tasks[i].outcome = "created" /\ tasks[j].outcome = "upserted"

\* C2: no step of message ingestion changes the status of a lead that is in
\* the store: every lead keeps its status across every step that is not a
\* REST request (so a status set to 'lost' stays 'lost' under message events).
C2_StatusKeptByIngestion ==
    [][apiCalls' = apiCalls =>
          \A l \in leads : \E k \in leads' : k.id = l.id /\ k.status = l.status]_vars

\* a lead was set to 'lost' by PUT .../status and a later message event
\* updated it: it is still 'lost'
C2_Witness ==
    \E l \in leads, u \in BagToSet(leadUpdated), i \in 1..Len(tasks) :
        /\ u.id = l.id /\ u.status = "lost" /\ l.status = "lost"
        /\ tasks[i].outcome = "updated"
        /\ l.whatsapp_id = tasks[i].whatsappId
        /\ u.whatsapp_id # l.whatsapp_id

\* C3: a message id accepted by processMessage is not accepted again within
\* the 30 s retention window, on either handler and with or without a
\* cleanup sweep in between: no two runs (the only source of store calls
\* and emissions) for one id start within PROCESSED_MESSAGES_TTL of each
\* other, and at most one store call is made per run.
C3_OneRunPerIdInWindow ==
    \A i, j \in 1..Len(tasks) :
        (i < j /\ tasks[i].whatsappId = tasks[j].whatsappId)
            => tasks[j].acceptedAt - tasks[i].acceptedAt > PROCESSED_MESSAGES_TTL

\* a second delivery of a persisted message arrived inside the window after
\* a sweep had run in between, and was dropped: one run, one lead
C3_Witness ==
    \E i \in 1..Len(tasks) :
        /\ tasks[i].whatsappId \in dupDrop
        /\ tasks[i].outcome = "created"
        /\ lastSweep > tasks[i].acceptedAt
        /\ Cardinality({j \in 1..Len(tasks) :
                           tasks[j].whatsappId = tasks[i].whatsappId}) = 1
        /\ \E l \in leads : /\ l.whatsapp_id = tasks[i].whatsappId
                            /\ l.updated_at = l.created_at

\* C4: for every store state and every event with a valid phone, running the
\* persistence of the same event (same resolved name) twice, the dedup gate
\* bypassed, leaves the same leads, apart from updated_at, as running it
\* once, and no additional lead.
C4_Idempotent ==
    \A m \in ValidMsgs, card \in ContactResults :
        LET name == ContactName(card, RawNumber(m))
            once == PersistOnce([leads |-> leads, nextId |-> nextId], m, name, now)
            twice == PersistOnce(once, m, name, now + 1)
        IN /\ {SansUpdatedAt(l) : l \in twice.leads}
                = {SansUpdatedAt(l) : l \in once.leads}
           /\ Cardinality(twice.leads) = Cardinality(once.leads)

\* a store that already holds a lead for the event's phone and that the
\* event changes
C4_Witness ==
    \E m \in ValidMsgs, card \in ContactResults :
        LET name == ContactName(card, RawNumber(m))
            once == PersistOnce([leads |-> leads, nextId |-> nextId], m, name, now)
        IN /\ \E l \in leads : l.phone = RawNumber(m) /\ l.status = "lost"
           /\ {SansUpdatedAt(l) : l \in once.leads}
                # {SansUpdatedAt(l) : l \in leads}
           /\ Cardinality(once.leads) = Cardinality(leads)

\* C5: for an existing lead, the store write of a message event whose
\* contact lookup supplied no name (absent, failed or empty) leaves the
\* lead's name, value, status and source_message as they were.
C5_BodyOnlyKeepsFields ==
    [][\A i \in 1..Len(tasks) :
          (Persisting(i) /\ ~tasks[i].resolved /\ tasks[i].existing)
              => \A l \in leads :
                    l.phone = TaskPhone(i)
                        => \E k \in leads' :
                              /\ k.id = l.id
                              /\ k.name = l.name
                              /\ k.value = l.value
                              /\ k.status = l.status
                              /\ k.source_message = l.source_message]_vars

\* C6: once two events of one phone that passed the dedup gate in the order
\* e1, e2 have both been persisted (no store error, no REST request), the
\* lead's last_message and whatsapp_id are those of e2.
C6_AppliedInGateOrder ==
    \A i, j \in 1..Len(tasks) :
        (/\ i < j
         /\ tasks[i].rawNumber = tasks[j].rawNumber
         /\ tasks[i].outcome \in Applied
         /\ tasks[j].outcome \in Applied
         /\ apiCalls = 0)
            => \A l \in leads :
                  l.phone = TaskPhone(j)
                      => /\ l.last_message = tasks[j].msg.body
                         /\ l.whatsapp_id = tasks[j].whatsappId

\* C7: the lead that processMessage creates for a phone with no lead has
\* status new, source whatsapp, last_message and source_message equal to the
\* event body, source_contact_name equal to the resolved contact name or
\* null, and whatsapp_id equal to the event's message id.
C7_CreatedLeadFields ==
    [][\A i \in 1..Len(tasks) :
          (Persisting(i) /\ tasks'[i].outcome = "created")
              => \E k \in leads' \ leads :
                    /\ k.phone = TaskPhone(i)
                    /\ k.status = "new"
                    /\ k.source = "whatsapp"
                    /\ k.last_message = tasks[i].msg.body
                    /\ k.source_message = tasks[i].msg.body
                    /\ k.source_contact_name =
                          (IF tasks[i].resolved THEN tasks[i].contactName ELSE NULL)
                    /\ k.whatsapp_id = tasks[i].whatsappId]_vars

\* C8: when the store write of an accepted event succeeds for a phone that
\* has a lead, no lead is added, and the same lead (same id) then has
\* last_message = event body, whatsapp_id = the event's message id and an
\* updated_at that is not earlier than before.
C8_ExistingLeadUpdated ==
    [][\A i \in 1..Len(tasks) :
          (Persisting(i) /\ tasks'[i].outcome \in Applied)
              => \A l \in leads :
                    l.phone = TaskPhone(i)
                        => /\ Cardinality(leads') = Cardinality(leads)
                           /\ \E k \in leads' :
                                 /\ k.id = l.id
                                 /\ k.phone = l.phone
                                 /\ k.last_message = tasks[i].msg.body
                                 /\ k.whatsapp_id = tasks[i].whatsappId
                                 /\ k.updated_at >= l.updated_at]_vars

\* a later event of a phone updated the lead that an earlier event created
C8_Witness ==
    \E i \in 1..Len(tasks), l \in leads :
        /\ tasks[i].outcome = "updated"
        /\ l.phone = TaskPhone(i)
        /\ l.whatsapp_id = tasks[i].whatsappId
        /\ l.last_message = tasks[i].msg.body
        /\ l.updated_at > l.created_at
        /\ Cardinality(leads) = 1

\* C9: each accepted event has exactly one preview emission, at most one
\* enriched emission, and no enriched emission when the contact lookup
\* supplied no name.
C9_EnrichedOnlyWithRealName ==
    \A i \in 1..Len(tasks) :
        /\ CopiesIn(FastPayload(tasks[i].msg, tasks[i].acceptedAt), emits) = 1
        /\ SumCopies(EnrichedOf(tasks[i].whatsappId), emits) <= 1
        /\ (tasks[i].pc # "contact" /\ ~tasks[i].resolved)
               => EnrichedOf(tasks[i].whatsappId) = {}

\* C10: a status change is emitted once: no step of a dashboard (that is, no
\* step other than a REST client's request) writes to the store or makes the
\* server emit lead_updated.
C10_DashboardsDoNotEcho ==
    [][apiCalls' = apiCalls => (leads' = leads /\ leadUpdated' = leadUpdated)]_vars

\* C12: a POST /api/leads for a phone that already has a lead leaves every
\* field the request does not supply as it was stored: name, last_message,
\* whatsapp_id, product_name and value.
C12_UpsertKeepsUnsupplied ==
    [][\A body \in StoreBodies : \A l \in leads :
          (PostLead(body) /\ validatePhone(body.phone).cleaned = l.phone)
          => \E l2 \in leads' :
               /\ l2.id = l.id
               /\ Falsy(body.name) => l2.name = l.name
               /\ Falsy(body.last_message) => l2.last_message = l.last_message
               /\ Falsy(body.whatsapp_id) => l2.whatsapp_id = l.whatsapp_id
               /\ Falsy(body.product_name) => l2.product_name = l.product_name
               /\ body.value.kind = "none" => l2.value = l.value]_vars

\* C14: in every reachable store state every lead's status is one of new,
\* potential, won, lost.
C14_StatusInEnum ==
    \A l \in leads : l.status \in {"new", "potential", "won", "lost"}

\* a text that writes a number: an optional sign, then digits only
IsNumeral(text) ==
    LET rest == IF text # <<>> /\ text[1] = "-" THEN Tail(text) ELSE text
    IN rest # <<>> /\ LeadingDigits(rest) = Len(rest)

NonNumeric(value) ==
    \/ value.kind = "nan"
    \/ value.kind = "str" /\ value.v # <<>> /\ ~IsNumeral(value.v)

Negative(value) ==
    \/ value.kind = "num" /\ value.v < 0
    \/ value.kind = "str" /\ IsNumeral(value.v) /\ value.v[1] = "-"

Missing(value) == value.kind = "none" \/ value = Str(<<>>)

\* C15: every lead's value is >= 0; createLead and updateLeadValue leave the
\* store as it is when the value is negative or not numeric, and store 0
\* when the value is missing, null or empty.
C15_ValueNonNegative ==
    [][/\ \A l \in leads' : l.value >= 0
       /\ \A id \in RequestIds, value \in StoreValues :
            UpdateValue(id, value)
            => /\ (NonNumeric(value) \/ Negative(value)) => leads' = leads
               /\ (Missing(value) /\ leads' # leads)
                  => \A l \in leads' : l.id = id => l.value = 0
       /\ \A body \in StoreBodies :
            PostLead(body)
            => /\ (NonNumeric(body.value) \/ Negative(body.value))
                  => leads' = leads
               /\ (Missing(body.value) /\ leads' # leads)
                  => \A l \in leads' :
                       l.phone = validatePhone(body.phone).cleaned => l.value = 0
      ]_vars

\* C16: a lead keeps its id and created_at through every step (message
\* run, upsert, status update, value update) that leaves a lead of its
\* phone in the store.
C16_IdAndCreatedAtFixed ==
    [][\A l \in leads : \A l2 \in leads' :
          l2.phone = l.phone => l2.id = l.id /\ l2.created_at = l.created_at]_vars

\* a lead carrying a WhatsApp id that, after the clock moved on from its
\* creation, has been given a status and a value
C16_Witness ==
    \E l \in leads :
        /\ l.created_at < l.updated_at
        /\ l.whatsapp_id # NULL
        /\ l.status = "won"
        /\ l.value = 7

\* C17: with an id that matches no lead, updateLeadStatus, updateLeadValue
\* and deleteLead return null (no row, no error) and leave the store as it
\* is; PUT /api/leads/{id}/status and DELETE /api/leads/{id} answer 404 and
\* emit no lead_updated.
C17_MissingIdIsNull ==
    \A id \in RequestIds :
        (~ \E l \in leads : l.id = id)
        => LET s == updateLeadStatus(leads, id, "won", now)
               v == updateLeadValue(leads, id, Num(7), now)
               d == deleteLead(leads, id)
               put == PutStatusOutcome(leads, id, "won", now, databaseUrl, FALSE)
               del == DeleteLeadOutcome(leads, id, databaseUrl, FALSE)
           IN /\ s.ok /\ s.rows = {} /\ s.leads = leads
              /\ v.ok /\ v.rows = {} /\ v.leads = leads
              /\ d.ok /\ d.rows = {} /\ d.leads = leads
              /\ put.code = 404 /\ put.rows = {} /\ put.leads = leads
              /\ del.code = 404 /\ del.leads = leads

\* C18: a POST /api/leads whose phone, status or value fails validation, and
\* a PUT /api/leads/{id}/status whose status fails it, is answered with a
\* 4xx code, leaves the store as it is and emits no lead_updated.
C18_ValidationIs4xx ==
    /\ \A body \in StoreBodies :
         (\/ ~validatePhone(body.phone).ok
          \/ ~validateStatus(IF body.status = "" THEN "new" ELSE body.status)
          \/ ~validateValue(body.value).ok)
         => LET o == PostLeadOutcome(leads, body, now, nextId, databaseUrl, FALSE)
            IN o.code \in 400..499 /\ o.leads = leads
    /\ \A id \in RequestIds, status \in StoreStatuses :
         ~validateStatus(status)
         => LET o == PutStatusOutcome(leads, id, status, now, databaseUrl, FALSE)
            IN o.code \in 400..499 /\ o.leads = leads /\ o.rows = {}

\* C20: a store call that fails while processMessage handles an event ends
\* that run without changing the store, a finished run makes no further
\* step (no retry), and runs accepted besides it still persist their events.
C20_StoreErrorIsDropped ==
    [][\A i \in 1..Len(tasks) :
          /\ (tasks[i].pc # "done" /\ tasks'[i].outcome = "db_error")
             => tasks'[i].pc = "done" /\ leads' = leads
          /\ tasks[i].pc = "done" => tasks'[i] = tasks[i]]_vars

\* the first run was dropped on a store error, the second created its lead
C20_Witness ==
    /\ Len(tasks) = 2
    /\ tasks[1].outcome = "db_error"
    /\ tasks[2].outcome = "created"
    /\ \E l \in leads : l.whatsapp_id = tasks[2].whatsappId

\* C19: when a status change the user requests in the dashboard is not
\* applied by the store (404, 500, or the server out of reach), the
\* dashboard's cache does not show the new status for that lead.
C19_FailedStatusChangeNotShown ==
    [][\A d \in DOMAIN cache : \A l \in cache[d], status \in PutStatuses :
          (/\ UserSetStatus(d, l, status)
           /\ ~ \E s \in leads' : s.id = l.id /\ s.status = status)
          => ~ \E c \in cache'[d] : c.id = l.id /\ c.status = status]_vars

\* C11: once a lead's source_message and source_contact_name are set, no
\* step (message run, POST /api/leads upsert) that keeps the lead changes
\* them.
C11_SourceFieldsImmutable ==
    [][\A l \in leads : \A l2 \in leads' :
          l2.id = l.id
          => /\ l.source_message # NULL => l2.source_message = l.source_message
             /\ l.source_contact_name # NULL
                => l2.source_contact_name = l.source_contact_name]_vars

\* C13: with a dashboard connected, once a message whose contact lookup
\* gave a real name is fully processed (the server's store write done, every
\* new_message event handled, no dashboard request pending), the stored
\* lead of that phone carries the resolved name.
C13_ResolvedNameWins ==
    (/\ Len(tasks) = 1
     /\ tasks[1].pc = "done"
     /\ tasks[1].resolved
     /\ tasks[1].outcome \in Applied
     /\ \A d \in DOMAIN inbox : inbox[d] = << >> /\ handlers[d] = << >>)
    => /\ \E l \in leads : l.phone = TaskPhone(1)
       /\ \A l \in leads :
            l.phone = TaskPhone(1) => l.name = tasks[1].contactName

\* C21: with no DATABASE_URL (the flat-file store selected), once the run of
\* an accepted event has completed and no later run of the same phone has
\* been accepted, the store holds a lead of that phone whose last_message
\* is the event body.
C21_PersistedWithoutDatabaseUrl ==
    \A i \in 1..Len(tasks) :
        (/\ ~databaseUrl
         /\ tasks[i].pc = "done"
         /\ \A j \in 1..Len(tasks) :
               j > i => tasks[j].rawNumber # tasks[i].rawNumber)
        => \E l \in leads : /\ l.phone = tasks[i].rawNumber
                            /\ l.last_message = tasks[i].msg.body

\* fast (is_fast_emit = true) new_message emissions of a message id
PreviewsOf(wid) ==
    {p \in BagToSet(emits) : p.whatsapp_id = wid /\ p.is_fast_emit}

\* C22: with the clock at rest, whatever the interleaving of the runs'
\* suspension points, no two accepted runs carry the same message id and at
\* most one preview is emitted per message id.
C22_GateIsAtomic ==
    /\ \A i, j \in 1..Len(tasks) :
          tasks[i].whatsappId = tasks[j].whatsappId => i = j
    /\ \A m \in Msgs : SumCopies(PreviewsOf(m.id), emits) <= 1

\* a run is suspended at its contact lookup while a second run has been
\* accepted: deliveries of the first run's id in between were all dropped
C22_Witness ==
    /\ Len(tasks) = 2
    /\ tasks[1].pc = "contact"
    /\ tasks[2].pc = "done"
    /\ Seen(processedMessages, tasks[1].whatsappId)
    /\ SumCopies(PreviewsOf(tasks[1].whatsappId), emits) = 1

\* C23: a message id first seen more than PROCESSED_MESSAGES_TTL ago is
\* treated as new by the dedup gate, with or without a cleanup sweep since
\* it was first seen.
C23_ExpiredIdIsNew ==
    \A m \in ValidMsgs :
        (/\ m.id \in DOMAIN processedMessages
         /\ now - processedMessages[m.id] > PROCESSED_MESSAGES_TTL)
        => ~Seen(processedMessages, m.id)

\* C24: a step of processMessage on an event that normalization rejects
\* (empty or blank body, status@broadcast, no message id, phone part
\* shorter than 5 characters) emits nothing, starts no run, leaves the
\* store alone and leaves the dedup set as it was.
C24_RejectedEventHasNoEffect ==
    [][\A m \in FilteredMsgs :
          processMessage(m)
          => UNCHANGED <<emits, inbox, tasks, leads, processedMessages>>]_vars

\* C25: every GET /chats/recent request is eventually answered, never with
\* an error other than 503: with 503 exactly when the client was not ready;
\* with the chat list when the transport answered a chat array before the
\* 10 s timeout; with the empty list when the transport failed or the
\* timeout came first.
C25_ChatsRecentAnswered ==
    /\ [](\A k \in 1..Len(chatReqs) :
            chatReqs[k].pc = "answered"
            => /\ chatReqs[k].code = (IF chatReqs[k].ready THEN 200 ELSE 503)
               /\ chatReqs[k].ready
                  => chatReqs[k].body =
                        (IF chatReqs[k].result = "chats" THEN "chats" ELSE "empty"))
    /\ \A k \in 1..MaxChatReqs :
          (Len(chatReqs) >= k)
              ~> (Len(chatReqs) >= k /\ chatReqs[k].pc = "answered")

\* the transport never answered a request made while ready; the timeout
\* answered it with the empty list
C25_Witness ==
    \E k \in 1..Len(chatReqs) :
        /\ chatReqs[k].ready
        /\ chatReqs[k].result = "timeout"
        /\ chatReqs[k].body = "empty"
        /\ now - chatReqs[k].startedAt >= CHATS_TIMEOUT

\* run j was accepted after run 1, for another phone, while run 1 had not
\* ended
Behind(j) ==
    /\ Len(tasks) >= j
    /\ tasks[1].pc # "done"
    /\ tasks[j].rawNumber # tasks[1].rawNumber

\* C26: an event accepted while the contact lookup or a store call of an
\* earlier event for another phone has not returned (and may never return)
\* has its preview emitted at once and, its own calls settling, completes
\* its run including the store call.
C26_RunsAreIndependent ==
    /\ [](\A j \in 2..Len(tasks) :
            SumCopies(PreviewsOf(tasks[j].whatsappId), emits) >= 1)
    /\ \A j \in 2..MaxTasks :
          Behind(j) ~> (Len(tasks) >= j /\ tasks[j].pc = "done")

\* the first run still waits for its contact lookup; a later run for
\* another phone has created its lead
C26_Witness ==
    /\ Len(tasks) = 2
    /\ tasks[1].pc = "contact"
    /\ tasks[2].rawNumber # tasks[1].rawNumber
    /\ tasks[2].outcome = "created"
    /\ \E l \in leads : l.phone = tasks[2].rawNumber

\* a lead satisfies every supplied filter condition
Matches(l, f) ==
    /\ f.status # "" => l.status = f.status
    /\ f.startDate # 0 => l.created_at >= f.startDate
    /\ f.endDate # 0 => l.created_at <= f.endDate
    /\ f.search # NULL
       => ILike(l.name, f.search) \/ ILike(l.phone, f.search)
             \/ ILike(l.last_message, f.search)

\* C27: for every combination of supplied and omitted filters, getLeads
\* succeeds and returns the leads that satisfy all supplied conditions,
\* newest created first, skipping `offset` of them and returning at most
\* `limit`.
C27_GetLeadsFilters ==
    \A f \in Filters :
        /\ getLeads(leads, f).ok
        /\ getLeads(leads, f).results =
              {Slice(s, f.limit, f.offset) :
                  s \in Orderings({l \in leads : Matches(l, f)})}

\* C28: whatever connects and automatic reconnects came before, the
\* delivery of one lead_updated or new_message event to a dashboard starts
\* exactly one handler there.
C28_OneHandlerPerEvent ==
    [][\A d \in DOMAIN inbox :
          (OnLeadUpdated(d) \/ OnNewMessage(d))
          => Len(handlers'[d]) = Len(handlers[d]) + 1]_vars

\* C29: a dashboard's lead list never holds two entries of one phone or of
\* one id, whatever new_message events, leads added by hand and
\* lead_updated events came before.
C29_ListHasNoDuplicates ==
    \A d \in DOMAIN list : \A i, j \in DOMAIN list[d] :
        (list[d][i].phone = list[d][j].phone \/ list[d][i].id = list[d][j].id)
            => i = j

\* C30: with the server in reach, when the user removes a listed lead that
\* the store holds, the store no longer holds it afterwards (so that a
\* reload of the list from the server does not bring it back).
C30_RemovedLeadLeavesStore ==
    [][\A d \in DOMAIN list : \A id \in {l.id : l \in leads} :
          (databaseUrl /\ RemoveLead(d, id))
          => /\ ~ \E l \in leads' : l.id = id
             /\ \A rows \in getLeads(leads', NoFilters).results :
                   \A i \in DOMAIN rows : rows[i].id # id]_vars

====
